---- MODULE Spec2Model ----
(***************************************************************************)
(* A model of src/src/linear_solver/model_exporter.cc: MPModelProtoExporter *)
(* (LP and MPS text export of an MPModelProto) and its helper LineBreaker.  *)
(*                                                                          *)
(* Build modelled: NDEBUG.  LOG(DFATAL) logs and execution continues with   *)
(* the `return false` that follows it; DCHECK_NE compiles to nothing.       *)
(*                                                                          *)
(* Representation of values                                                 *)
(*   double : a record [k, h]; k is "fin", "pinf", "ninf" or "nan", and     *)
(*            for k = "fin" the value is h/2 (so halves are representable). *)
(*   text   : a std::string split at its '\n' characters: a non-empty       *)
(*            sequence of strings, the last being the text after the last   *)
(*            '\n'.  "" is <<"">>, "a\nb\n" is <<"a", "b", "">>.            *)
(***************************************************************************)
EXTENDS Integers, Sequences, FiniteSets, TLC

VARIABLES
  proto,                            \* const MPModelProto& proto_
  FLAGS_lp_shows_unused_variables,  \* DEFINE_bool, line 29
  FLAGS_lp_max_line_length,         \* DEFINE_int32, line 33
  exporter,                         \* the data members of MPModelProtoExporter
  output,                           \* the caller's std::string
  call,                             \* the last export call and what it returned
  ref,                              \* an earlier export call, kept for comparison
  breaker,                          \* a LineBreaker object
  held                              \* per line of its output: what the calls put there

vars == <<proto, FLAGS_lp_shows_unused_variables, FLAGS_lp_max_line_length,
          exporter, output, call, ref, breaker, held>>

(***************************************************************************)
(* Doubles                                                                  *)
(***************************************************************************)
Fin(h) == [k |-> "fin", h |-> h]
Num(n) == Fin(2 * n)
PosInf == [k |-> "pinf", h |-> 0]
NegInf == [k |-> "ninf", h |-> 0]
NaN == [k |-> "nan", h |-> 0]

\* a == b and a != b on doubles: a NaN compares unequal to everything.
DEq(a, b) == a.k # "nan" /\ b.k # "nan" /\ a = b
DNe(a, b) == ~DEq(a, b)

IsFinite(a) == a.k = "fin"

\* a - b
DSub(a, b) ==
  CASE a.k = "nan" \/ b.k = "nan" -> NaN
    [] a.k = "fin" /\ b.k = "fin" -> Fin(a.h - b.h)
    [] a.k = "fin" /\ b.k = "pinf" -> NegInf
    [] a.k = "fin" /\ b.k = "ninf" -> PosInf
    [] a.k = "pinf" /\ b.k = "pinf" -> NaN
    [] a.k = "ninf" /\ b.k = "ninf" -> NaN
    [] OTHER -> a

fabs(a) ==
  CASE a.k = "fin" -> Fin(IF a.h < 0 THEN -a.h ELSE a.h)
    [] a.k = "ninf" -> PosInf
    [] OTHER -> a

\* TLC's \div and % round towards minus infinity, so h \div 2 is floor(h/2).
floor(a) == IF a.k = "fin" THEN Fin(2 * (a.h \div 2)) ELSE a
ceil(a) == IF a.k = "fin" THEN Fin(2 * ((a.h + 1) \div 2)) ELSE a
\* round(): halfway cases away from zero.
round(a) ==
  IF a.k # "fin" \/ a.h % 2 = 0 THEN a
  ELSE IF a.h > 0 THEN Fin(a.h + 1) ELSE Fin(a.h - 1)

(***************************************************************************)
(* printf conversions                                                       *)
(***************************************************************************)
RECURSIVE Spaces(_)
Spaces(n) == IF n <= 0 THEN "" ELSE " " \o Spaces(n - 1)

RECURSIVE Zeros(_)
Zeros(n) == IF n <= 0 THEN "" ELSE "0" \o Zeros(n - 1)

\* %-<w>s and %<w>s
PadRight(s, w) == s \o Spaces(w - Len(s))
PadLeft(s, w) == Spaces(w - Len(s)) \o s

\* %d of a non-negative int, and its .size()
FormatD(n) == ToString(n)
NumDigits(n) == Len(FormatD(n))

\* %0*d of a non-negative int
FormatD0(w, n) == Zeros(w - Len(FormatD(n))) \o FormatD(n)

\* The digits of |h/2| as %G prints them: no exponent and no trailing zeros
\* for the magnitudes of the model (below 10^16 and with at most one decimal).
Magnitude(h) ==
  LET m == IF h < 0 THEN -h ELSE h
  IN ToString(m \div 2) \o (IF m % 2 = 1 THEN ".5" ELSE "")

\* %.16G (also %-.16G: left-justification without a width changes nothing)
FormatG(a) ==
  CASE a.k = "pinf" -> "INF"
    [] a.k = "ninf" -> "-INF"
    [] a.k = "nan" -> "NAN"
    [] OTHER -> (IF a.h < 0 THEN "-" ELSE "") \o Magnitude(a.h)

\* %+.16G
FormatPlusG(a) ==
  IF a.k = "ninf" \/ (a.k = "fin" /\ a.h < 0) THEN FormatG(a) ELSE "+" \o FormatG(a)

\* %.0f: rounds to an integer, halfway cases to even; the sign is kept.
FormatF0(a) ==
  CASE a.k = "pinf" -> "inf"
    [] a.k = "ninf" -> "-inf"
    [] a.k = "nan" -> "nan"
    [] OTHER ->
         LET m == IF a.h < 0 THEN -a.h ELSE a.h
             lo == m \div 2
             r == IF m % 2 = 0 THEN lo ELSE IF lo % 2 = 0 THEN lo ELSE lo + 1
         IN (IF a.h < 0 THEN "-" ELSE "") \o ToString(r)

(***************************************************************************)
(* Text: a std::string split at '\n'                                        *)
(***************************************************************************)
EmptyText == <<"">>

\* *out += s, for an s without '\n'
Add(out, s) == [out EXCEPT ![Len(out)] = @ \o s]

\* *out += "\n"
EndLine(out) == Append(out, "")

\* *out += s + "\n"
AddLine(out, s) == EndLine(Add(out, s))

\* *out += t, for a text t
AddText(out, t) == SubSeq(out, 1, Len(out) - 1) \o <<out[Len(out)] \o t[1]>> \o Tail(t)

\* s.size() of a text
RECURSIVE TextSize(_)
TextSize(t) == IF Len(t) = 1 THEN Len(t[1]) ELSE Len(t[1]) + 1 + TextSize(Tail(t))

(***************************************************************************)
(* The model handed to the exporter                                         *)
(*                                                                          *)
(* proto.variable holds the variables that were set explicitly; when        *)
(* proto.variable_size exceeds its length, the variables after them are     *)
(* default-constructed MPVariableProto messages (no name, not integer,      *)
(* objective coefficient 0), which differ from one another only in index.   *)
(***************************************************************************)
DefaultVariable ==
  [has_name |-> FALSE, name |-> "", lower_bound |-> NegInf, upper_bound |-> PosInf,
   is_integer |-> FALSE, objective_coefficient |-> Num(0)]

variable_size == proto.variable_size
constraint_size == Len(proto.constraint)

\* proto_.variable(var_index) and proto_.constraint(cst_index), 0-based
Variable(var_index) ==
  IF var_index < Len(proto.variable) THEN proto.variable[var_index + 1]
  ELSE DefaultVariable
Constraint(cst_index) == proto.constraint[cst_index + 1]

\* The indices a loop over the names of all variables has to visit: all of
\* them, or the explicit ones and one default-constructed one.
VariableNameIndices ==
  IF variable_size <= Len(proto.variable) THEN 0 .. variable_size - 1
  ELSE (0 .. Len(proto.variable) - 1) \cup {variable_size - 1}

(***************************************************************************)
(* Names                                                                    *)
(***************************************************************************)
kMaxNameLength == 255
kForbiddenChars == {" ", "+", "-", "*", "/", "<", ">", "=", ":", "\\"}
kForbiddenFirstChars == {"$", ".", "0", "1", "2", "3", "4", "5", "6", "7", "8", "9"}

CharAt(s, i) == SubSeq(s, i, i)

\* CheckNameValidity with the length test off by one: a name of
\* kMaxNameLength characters is rejected.
CheckNameValidity_OffByOne(name) ==
  IF Len(name) = 0 THEN FALSE
  ELSE IF Len(name) >= kMaxNameLength THEN FALSE
  ELSE IF \E i \in 1 .. Len(name) : CharAt(name, i) \in kForbiddenChars THEN FALSE
  ELSE IF CharAt(name, 1) \in kForbiddenFirstChars THEN FALSE
  ELSE TRUE

CheckNameValidity(name) ==
  IF Len(name) = 0 THEN FALSE
  ELSE IF Len(name) > kMaxNameLength THEN FALSE
  ELSE IF \E i \in 1 .. Len(name) : CharAt(name, i) \in kForbiddenChars THEN FALSE
  ELSE IF CharAt(name, 1) \in kForbiddenFirstChars THEN FALSE
  ELSE TRUE

GetVariableName(e, var_index) ==
  IF e.use_obfuscated_names_ \/ ~Variable(var_index).has_name
  THEN "V" \o FormatD0(e.num_digits_for_variables_, var_index)
  ELSE Variable(var_index).name

GetConstraintName(e, cst_index) ==
  IF e.use_obfuscated_names_ \/ ~Constraint(cst_index).has_name
  THEN "C" \o FormatD0(e.num_digits_for_constraints_, cst_index)
  ELSE Constraint(cst_index).name

CheckAllNamesValidity(e) ==
  /\ \A i \in VariableNameIndices : CheckNameValidity(GetVariableName(e, i))
  /\ \A i \in 0 .. constraint_size - 1 : CheckNameValidity(GetConstraintName(e, i))

(***************************************************************************)
(* Header comment                                                           *)
(***************************************************************************)
AppendComments(e, sep, out) ==
  LET l1 == AddLine(out, sep \o " Generated by MPModelProtoExporter")
      l2 == AddLine(l1, sep \o "   " \o PadRight("Name", 16) \o " : "
                        \o (IF proto.has_name THEN proto.name ELSE "NoName"))
      l3 == AddLine(l2, sep \o "   " \o PadRight("Format", 16) \o " : "
                        \o (IF e.use_fixed_mps_format_ THEN "Fixed" ELSE "Free"))
      l4 == AddLine(l3, sep \o "   " \o PadRight("Constraints", 16) \o " : "
                        \o FormatD(constraint_size))
      l5 == AddLine(l4, sep \o "   " \o PadRight("Variables", 16) \o " : "
                        \o FormatD(variable_size))
      l6 == AddLine(l5, sep \o "     " \o PadRight("Binary", 14) \o " : "
                        \o FormatD(e.num_binary_variables_))
      l7 == AddLine(l6, sep \o "     " \o PadRight("Integer", 14) \o " : "
                        \o FormatD(e.num_integer_variables_))
      l8 == AddLine(l7, sep \o "     " \o PadRight("Continuous", 14) \o " : "
                        \o FormatD(e.num_continuous_variables_))
  IN IF FLAGS_lp_shows_unused_variables
     THEN AddLine(l8, sep \o " Unused variables are shown")
     ELSE l8

(***************************************************************************)
(* LineBreaker                                                              *)
(***************************************************************************)
LineBreaker(max_line_size) ==
  [max_line_size_ |-> max_line_size, line_size_ |-> 0, output_ |-> EmptyText]

\* LineBreaker::Append(s), s a text
LineBreakerAppend(lb, s) ==
  LET size == lb.line_size_ + TextSize(s)
  IN IF size > lb.max_line_size_
     THEN [lb EXCEPT !.line_size_ = TextSize(s),
                     !.output_ = AddText(Add(EndLine(@), " "), s)]
     ELSE [lb EXCEPT !.line_size_ = size,
                     !.output_ = AddText(@, s)]

WillFit(lb, s) == lb.line_size_ + TextSize(s) < lb.max_line_size_

Consume(lb, size) == [lb EXCEPT !.line_size_ = @ + size]

GetOutput(lb) == lb.output_

(***************************************************************************)
(* Helpers of the LP export, and Setup                                      *)
(***************************************************************************)
\* WriteLpTerm with the range check off by one: the last variable is rejected.
WriteLpTerm_OffByOne(e, var_index, coefficient) ==
  IF var_index < 0 \/ var_index + 1 >= variable_size
  THEN [ok |-> FALSE, term |-> ""]
  ELSE IF DNe(coefficient, Num(0))
  THEN [ok |-> TRUE,
        term |-> FormatPlusG(coefficient) \o " " \o GetVariableName(e, var_index) \o " "]
  ELSE [ok |-> TRUE, term |-> ""]

\* Returns the bool result and the std::string written to *output.
WriteLpTerm(e, var_index, coefficient) ==
  IF var_index < 0 \/ var_index >= variable_size
  THEN [ok |-> FALSE, term |-> ""]
  ELSE IF DNe(coefficient, Num(0))
  THEN [ok |-> TRUE,
        term |-> FormatPlusG(coefficient) \o " " \o GetVariableName(e, var_index) \o " "]
  ELSE [ok |-> TRUE, term |-> ""]

IsBoolean(var) ==
  var.is_integer /\ DEq(ceil(var.lower_bound), Num(0))
                 /\ DEq(floor(var.upper_bound), Num(1))

\* Setup() always returns true; this is the exporter after it.
Setup(e) ==
  LET explicit == 1 .. Len(proto.variable)
      binary == Cardinality({i \in explicit : IsBoolean(proto.variable[i])})
      integer == Cardinality({i \in explicit : proto.variable[i].is_integer
                                               /\ ~IsBoolean(proto.variable[i])})
  IN [e EXCEPT !.num_digits_for_constraints_ = NumDigits(constraint_size),
               !.num_digits_for_variables_ = NumDigits(variable_size),
               !.num_binary_variables_ = binary,
               !.num_integer_variables_ = integer,
               !.num_continuous_variables_ = variable_size - binary - integer]

(***************************************************************************)
(* ExportModelAsLpFormat                                                    *)
(***************************************************************************)
kNumFormattingChars == 10

\* The objective loop (lines 253-261) from var_index on.
\* st = [ok, lb: the obj_line_breaker, show: show_variable (index + 1)]
RECURSIVE LpObjectiveTerms(_, _, _)
LpObjectiveTerms(e, var_index, st) ==
  IF ~st.ok \/ var_index >= variable_size THEN st
  ELSE LET coeff == Variable(var_index).objective_coefficient
           w == WriteLpTerm(e, var_index, coeff)
       IN IF ~w.ok THEN [st EXCEPT !.ok = FALSE]
          ELSE LpObjectiveTerms(e, var_index + 1,
                 [st EXCEPT !.lb = LineBreakerAppend(@, <<w.term>>),
                            !.show[var_index + 1] =
                               DNe(coeff, Num(0)) \/ FLAGS_lp_shows_unused_variables])

\* show_variable[var_index] = coeff != 0.0 || FLAGS_lp_shows_unused_variables
\* (lines 280-281)
ShowAfterTerm(show, var_index, coeff) ==
  [show EXCEPT ![var_index + 1] = DNe(coeff, Num(0)) \/ FLAGS_lp_shows_unused_variables]

\* The loop over one constraint's entries (lines 272-282) from entry i on.
\* st = [ok, lb: the line_breaker, show]
RECURSIVE LpConstraintTerms(_, _, _, _)
LpConstraintTerms(e, ct, i, st) ==
  IF ~st.ok \/ i >= Len(ct.var_index) THEN st
  ELSE LET var_index == ct.var_index[i + 1]
           coeff == ct.coefficient[i + 1]
           w == WriteLpTerm(e, var_index, coeff)
       IN IF ~w.ok THEN [st EXCEPT !.ok = FALSE]
          ELSE LpConstraintTerms(e, ct, i + 1,
                 [st EXCEPT !.lb = LineBreakerAppend(@, <<w.term>>),
                            !.show = ShowAfterTerm(@, var_index, coeff)])

\* " <= %-.16G\n" and the like: a relation and its value, then '\n'
Relation(op, value) == <<" " \o op \o " " \o FormatG(value), "">>

\* StrAppend(output, " ", name, ": ", line_breaker.GetOutput()), then the
\* relation, after "\n " if it will not fit (lines 294-299 and 306-309).
LpInequality(out, lb, name, relation) ==
  LET o1 == AddText(Add(out, " " \o name \o ": "), GetOutput(lb))
      o2 == IF ~WillFit(lb, relation) THEN Add(EndLine(o1), " ") ELSE o1
  IN AddText(o2, relation)

\* LpRelations with the "<=" relation appended to the line_breaker that the
\* ">=" clause reuses.
LpRelations_SharedBreaker(out, lb0, name, lb, ub) ==
  IF DEq(lb, ub)
  THEN LET brk == LineBreakerAppend(lb0, Relation("=", ub))
       IN AddText(Add(out, " " \o name \o ": "), GetOutput(brk))
  ELSE LET rhs_name == IF DNe(lb, NegInf) THEN name \o "_rhs" ELSE name
           lhs_name == IF DNe(ub, PosInf) THEN name \o "_lhs" ELSE name
           b1 == IF DNe(ub, PosInf) THEN LineBreakerAppend(lb0, Relation("<=", ub)) ELSE lb0
           o1 == IF DNe(ub, PosInf)
                 THEN AddText(Add(out, " " \o rhs_name \o ": "), GetOutput(b1))
                 ELSE out
       IN IF DNe(lb, NegInf)
          THEN AddText(Add(o1, " " \o lhs_name \o ": "),
                       GetOutput(LineBreakerAppend(b1, Relation(">=", lb))))
          ELSE o1

\* The text of one constraint, given its line_breaker after the terms
\* (lines 283-311).
LpRelations(out, lb0, name, lb, ub) ==
  IF DEq(lb, ub)
  THEN LET brk == LineBreakerAppend(lb0, Relation("=", ub))
       IN AddText(Add(out, " " \o name \o ": "), GetOutput(brk))
  ELSE LET o1 == IF DNe(ub, PosInf)
                 THEN LpInequality(out, lb0,
                        IF DNe(lb, NegInf) THEN name \o "_rhs" ELSE name,
                        Relation("<=", ub))
                 ELSE out
       IN IF DNe(lb, NegInf)
          THEN LpInequality(o1, lb0,
                 IF DNe(ub, PosInf) THEN name \o "_lhs" ELSE name,
                 Relation(">=", lb))
          ELSE o1

\* One iteration of the loop over the constraints (lines 264-312).
\* st = [ok, output, show]
LpConstraint(e, cst_index, st) ==
  LET ct == Constraint(cst_index)
      name == GetConstraintName(e, cst_index)
      lb0 == Consume(LineBreaker(FLAGS_lp_max_line_length),
                     kNumFormattingChars + Len(name))
      t == LpConstraintTerms(e, ct, 0, [ok |-> TRUE, lb |-> lb0, show |-> st.show])
  IN IF ~t.ok THEN [st EXCEPT !.ok = FALSE]
     ELSE [ok |-> TRUE, show |-> t.show,
           output |-> LpRelations(st.output, t.lb, name,
                                  ct.lower_bound, ct.upper_bound)]

RECURSIVE LpConstraints(_, _, _)
LpConstraints(e, cst_index, st) ==
  IF ~st.ok \/ cst_index >= constraint_size THEN st
  ELSE LpConstraints(e, cst_index + 1, LpConstraint(e, cst_index, st))

\* The line of one shown variable in the Bounds section (lines 321-336).
LpBound(e, var_index, out) ==
  LET var_proto == Variable(var_index)
      lb == var_proto.lower_bound
      ub == var_proto.upper_bound
      name == GetVariableName(e, var_index)
  IN IF var_proto.is_integer /\ DEq(lb, round(lb)) /\ DEq(ub, round(ub))
     THEN AddLine(out, " " \o FormatF0(lb) \o " <= " \o name \o " <= " \o FormatF0(ub))
     ELSE LET o1 == IF DNe(lb, NegInf) THEN Add(out, " " \o FormatG(lb) \o " <= ")
                    ELSE out
              o2 == Add(o1, name)
              o3 == IF DNe(ub, PosInf) THEN Add(o2, " <= " \o FormatG(ub)) ELSE o2
          IN EndLine(o3)

\* for (var_index...) { if (!show_variable[var_index]) continue; ... }
RECURSIVE LpBounds(_, _, _, _)
LpBounds(e, var_index, show, out) ==
  IF var_index >= variable_size THEN out
  ELSE LpBounds(e, var_index + 1, show,
                IF show[var_index + 1] THEN LpBound(e, var_index, out) ELSE out)

\* The loops of the Binaries (binaries = TRUE) and Generals sections.
RECURSIVE LpIntegers(_, _, _, _, _)
LpIntegers(e, binaries, var_index, show, out) ==
  IF var_index >= variable_size THEN out
  ELSE LET var_proto == Variable(var_index)
           listed == IF binaries THEN IsBoolean(var_proto)
                     ELSE var_proto.is_integer /\ ~IsBoolean(var_proto)
       IN LpIntegers(e, binaries, var_index + 1, show,
                     IF show[var_index + 1] /\ listed
                     THEN AddLine(out, " " \o GetVariableName(e, var_index))
                     ELSE out)

\* Returns [result, exporter, output]: the value returned, the exporter's
\* members and the caller's string after the call.
ExportModelAsLpFormat(e0, obfuscated, out0) ==
  IF ~obfuscated /\ ~CheckAllNamesValidity(e0)
  THEN [result |-> FALSE, exporter |-> e0, output |-> out0]
  ELSE
    LET e1 == IF ~e0.setup_done_ THEN Setup(e0) ELSE e0
        e == [e1 EXCEPT !.setup_done_ = TRUE, !.use_obfuscated_names_ = obfuscated]
        o1 == AppendComments(e, "\\", EmptyText)
        o2 == AddLine(o1, IF proto.maximize THEN "Maximize" ELSE "Minimize")
        b1 == LineBreakerAppend(LineBreaker(FLAGS_lp_max_line_length), <<" Obj: ">>)
        b2 == IF DNe(proto.objective_offset, Num(0))
              THEN LineBreakerAppend(b1,
                     <<FormatPlusG(proto.objective_offset) \o " Constant ">>)
              ELSE b1
        obj == LpObjectiveTerms(e, 0,
                 [ok |-> TRUE, lb |-> b2,
                  show |-> [i \in 1 .. variable_size |-> FLAGS_lp_shows_unused_variables]])
        o3 == AddLine(EndLine(AddText(o2, GetOutput(obj.lb))), "Subject to")
        cts == LpConstraints(e, 0, [ok |-> TRUE, output |-> o3, show |-> obj.show])
        o4 == AddLine(cts.output, "Bounds")
        o5 == IF DNe(proto.objective_offset, Num(0))
              THEN AddLine(o4, " 1 <= Constant <= 1") ELSE o4
        o6 == LpBounds(e, 0, cts.show, o5)
        o7 == IF e.num_binary_variables_ > 0
              THEN LpIntegers(e, TRUE, 0, cts.show, AddLine(o6, "Binaries")) ELSE o6
        o8 == IF e.num_integer_variables_ > 0
              THEN LpIntegers(e, FALSE, 0, cts.show, AddLine(o7, "Generals")) ELSE o7
    IN IF ~obj.ok THEN [result |-> FALSE, exporter |-> e, output |-> o2]
       ELSE IF ~cts.ok THEN [result |-> FALSE, exporter |-> e, output |-> cts.output]
       ELSE [result |-> TRUE, exporter |-> e, output |-> AddLine(o8, "End")]

(***************************************************************************)
(* ExportModelAsMpsFormat                                                   *)
(*                                                                          *)
(* The section builders thread s = [col, out]: current_mps_column_ and the  *)
(* std::string of the section.                                              *)
(***************************************************************************)
kFixedMpsDoubleWidth == 12
kMpsFieldSize == 8

\* value_str of AppendMpsPair.  The loop that lowers the precision is not
\* entered: %.12G of a magnitude of the model is at most 12 characters.
MpsFixedValue(value) == FormatG(value)

AppendMpsPair(e, name, value, out) ==
  IF e.use_fixed_mps_format_
  THEN Add(out, "  " \o PadRight(name, 8) \o "  "
                \o PadLeft(MpsFixedValue(value), kFixedMpsDoubleWidth) \o " ")
  ELSE Add(out, "  " \o PadRight(name, 16) \o "  " \o PadLeft(FormatG(value), 21) \o " ")

AppendMpsLineHeader(e, id, name, out) ==
  IF e.use_fixed_mps_format_
  THEN Add(out, " " \o PadRight(id, 2) \o " " \o PadRight(name, 8))
  ELSE Add(out, " " \o PadRight(id, 2) \o "  " \o PadRight(name, 16))

AppendMpsLineHeaderWithNewLine(e, id, name, out) ==
  EndLine(AppendMpsLineHeader(e, id, name, out))

AppendNewLineIfTwoColumns(s) ==
  IF s.col + 1 = 2 THEN [col |-> 0, out |-> EndLine(s.out)]
  ELSE [s EXCEPT !.col = @ + 1]

AppendMpsTermWithContext(e, head_name, name, value, s) ==
  LET o1 == IF s.col = 0 THEN AppendMpsLineHeader(e, "", head_name, s.out) ELSE s.out
  IN AppendNewLineIfTwoColumns([s EXCEPT !.out = AppendMpsPair(e, name, value, o1)])

AppendMpsBound(e, bound_type, name, value, out) ==
  EndLine(AppendMpsPair(e, name, value, AppendMpsLineHeader(e, bound_type, "BOUND", out)))

\* AppendMpsLineHeader(type, "BOUND", ...) and "  %s\n" with the name
AppendMpsNameOnlyBound(e, bound_type, name, out) ==
  AddLine(AppendMpsLineHeader(e, bound_type, "BOUND", out), "  " \o name)

CanUseFixedMpsFormat(e) ==
  IF e.use_obfuscated_names_
  THEN e.num_digits_for_constraints_ < kMpsFieldSize
       /\ e.num_digits_for_variables_ < kMpsFieldSize
  ELSE /\ \A i \in 0 .. constraint_size - 1 :
            ~(Len(Constraint(i).name) > kMpsFieldSize)
       /\ \A i \in VariableNameIndices : ~(Len(Variable(i).name) > kMpsFieldSize)

\* The ROWS type of a constraint (lines 497-505).
MpsRowType(lb, ub) ==
  IF DEq(lb, ub) THEN "E" ELSE IF DEq(lb, NegInf) THEN "L" ELSE "G"

RECURSIVE MpsRows(_, _, _)
MpsRows(e, cst_index, out) ==
  IF cst_index >= constraint_size THEN out
  ELSE LET ct == Constraint(cst_index)
       IN MpsRows(e, cst_index + 1,
            AppendMpsLineHeaderWithNewLine(e, MpsRowType(ct.lower_bound, ct.upper_bound),
                                           GetConstraintName(e, cst_index), out))

\* The loops that build transpose (lines 515-529) from constraint cst_index,
\* entry k on.  t = [ok, transpose (index + 1)]
RECURSIVE MpsTranspose(_, _, _)
MpsTranspose(cst_index, k, t) ==
  IF ~t.ok \/ cst_index >= constraint_size THEN t
  ELSE LET ct == Constraint(cst_index)
       IN IF k >= Len(ct.var_index) THEN MpsTranspose(cst_index + 1, 0, t)
          ELSE LET var_index == ct.var_index[k + 1]
                   coeff == ct.coefficient[k + 1]
               IN IF var_index < 0 \/ var_index >= variable_size
                  THEN [t EXCEPT !.ok = FALSE]
                  ELSE MpsTranspose(cst_index, k + 1,
                         IF DNe(coeff, Num(0))
                         THEN [t EXCEPT !.transpose[var_index + 1] =
                                           Append(@, <<cst_index, coeff>>)]
                         ELSE t)

\* for (cst_index_and_coeff : transpose[var_index]) AppendMpsTermWithContext(...)
RECURSIVE MpsColumnTerms(_, _, _, _)
MpsColumnTerms(e, var_name, entries, s) ==
  IF entries = <<>> THEN s
  ELSE MpsColumnTerms(e, var_name, Tail(entries),
         AppendMpsTermWithContext(e, var_name,
                                  GetConstraintName(e, Head(entries)[1]),
                                  Head(entries)[2], s))

\* MpsColumn without `current_mps_column_ = 0` at the start of a variable.
MpsColumn_NoReset(e, var_index, transpose, s) ==
  LET var_proto == Variable(var_index)
      var_name == GetVariableName(e, var_index)
      s1 == IF DNe(var_proto.objective_coefficient, Num(0))
            THEN AppendMpsTermWithContext(e, var_name, "COST",
                                          var_proto.objective_coefficient, s)
            ELSE s
  IN AppendNewLineIfTwoColumns(MpsColumnTerms(e, var_name, transpose[var_index + 1], s1))

\* The body of the loop of AppendMpsColumns for a variable of the requested
\* integrality (lines 446-458).
MpsColumn(e, var_index, transpose, s) ==
  LET var_proto == Variable(var_index)
      var_name == GetVariableName(e, var_index)
      s0 == [s EXCEPT !.col = 0]
      s1 == IF DNe(var_proto.objective_coefficient, Num(0))
            THEN AppendMpsTermWithContext(e, var_name, "COST",
                                          var_proto.objective_coefficient, s0)
            ELSE s0
  IN AppendNewLineIfTwoColumns(MpsColumnTerms(e, var_name, transpose[var_index + 1], s1))

RECURSIVE MpsColumnsFrom(_, _, _, _, _)
MpsColumnsFrom(e, integrality, transpose, var_index, s) ==
  IF var_index >= variable_size THEN s
  ELSE MpsColumnsFrom(e, integrality, transpose, var_index + 1,
         IF Variable(var_index).is_integer # integrality THEN s
         ELSE MpsColumn(e, var_index, transpose, s))

AppendMpsColumns(e, integrality, transpose, s) ==
  MpsColumnsFrom(e, integrality, transpose, 0, [s EXCEPT !.col = 0])

kIntMarkerFormat(a, b, c) == "  " \o PadRight(a, 10) \o PadRight(b, 36) \o PadRight(c, 10)

RECURSIVE MpsRhs(_, _, _)
MpsRhs(e, cst_index, s) ==
  IF cst_index >= constraint_size THEN s
  ELSE LET ct == Constraint(cst_index)
           lb == ct.lower_bound
           ub == ct.upper_bound
           cst_name == GetConstraintName(e, cst_index)
       IN MpsRhs(e, cst_index + 1,
            IF DNe(lb, NegInf) THEN AppendMpsTermWithContext(e, "RHS", cst_name, lb, s)
            ELSE IF DNe(ub, PosInf)
            THEN AppendMpsTermWithContext(e, "RHS", cst_name, ub, s)
            ELSE s)

RECURSIVE MpsRanges(_, _, _)
MpsRanges(e, cst_index, s) ==
  IF cst_index >= constraint_size THEN s
  ELSE LET ct == Constraint(cst_index)
           range == fabs(DSub(ct.upper_bound, ct.lower_bound))
       IN MpsRanges(e, cst_index + 1,
            IF DNe(range, Num(0)) /\ DNe(range, PosInf)
            THEN AppendMpsTermWithContext(e, "RANGE", GetConstraintName(e, cst_index),
                                          range, s)
            ELSE s)

\* MpsBound without the FX case: equal bounds are written as LO and UP.
MpsBound_NoFX(e, var_index, out) ==
  LET var_proto == Variable(var_index)
      lb == var_proto.lower_bound
      ub == var_proto.upper_bound
      var_name == GetVariableName(e, var_index)
  IN IF var_proto.is_integer
     THEN IF IsBoolean(var_proto) THEN AppendMpsNameOnlyBound(e, "BV", var_name, out)
          ELSE LET o1 == IF DNe(lb, Num(0))
                         THEN AppendMpsBound(e, "LI", var_name, lb, out) ELSE out
               IN IF DNe(ub, PosInf) THEN AppendMpsBound(e, "UI", var_name, ub, o1)
                  ELSE o1
     ELSE IF DEq(lb, NegInf) /\ DEq(ub, PosInf)
          THEN AppendMpsNameOnlyBound(e, "FR", var_name, out)
          ELSE LET o1 == IF DNe(lb, Num(0))
                         THEN AppendMpsBound(e, "LO", var_name, lb, out)
                         ELSE IF DEq(ub, PosInf)
                         THEN AppendMpsNameOnlyBound(e, "PL", var_name, out)
                         ELSE out
               IN IF DNe(ub, PosInf) THEN AppendMpsBound(e, "UP", var_name, ub, o1)
                  ELSE o1

\* The rows of one variable in the BOUNDS section (lines 585-619).
MpsBound(e, var_index, out) ==
  LET var_proto == Variable(var_index)
      lb == var_proto.lower_bound
      ub == var_proto.upper_bound
      var_name == GetVariableName(e, var_index)
  IN IF var_proto.is_integer
     THEN IF IsBoolean(var_proto) THEN AppendMpsNameOnlyBound(e, "BV", var_name, out)
          ELSE LET o1 == IF DNe(lb, Num(0))
                         THEN AppendMpsBound(e, "LI", var_name, lb, out) ELSE out
               IN IF DNe(ub, PosInf) THEN AppendMpsBound(e, "UI", var_name, ub, o1)
                  ELSE o1
     ELSE IF DEq(lb, NegInf) /\ DEq(ub, PosInf)
          THEN AppendMpsNameOnlyBound(e, "FR", var_name, out)
          ELSE IF DEq(lb, ub) THEN AppendMpsBound(e, "FX", var_name, lb, out)
          ELSE LET o1 == IF DNe(lb, Num(0))
                         THEN AppendMpsBound(e, "LO", var_name, lb, out)
                         ELSE IF DEq(ub, PosInf)
                         THEN AppendMpsNameOnlyBound(e, "PL", var_name, out)
                         ELSE out
               IN IF DNe(ub, PosInf) THEN AppendMpsBound(e, "UP", var_name, ub, o1)
                  ELSE o1

RECURSIVE MpsBounds(_, _, _)
MpsBounds(e, var_index, out) ==
  IF var_index >= variable_size THEN out
  ELSE MpsBounds(e, var_index + 1, MpsBound(e, var_index, out))

\* if (!section.empty()) *output += "KEYWORD\n" + section;
AddSection(out, keyword, section) ==
  IF section = EmptyText THEN out ELSE AddText(AddLine(out, keyword), section)

\* Lines 465-479: the name check, Setup and the choice of the layout.
\* Returns [ok, exporter].
MpsPrepare(e0, fixed_format, obfuscated) ==
  IF ~obfuscated /\ ~CheckAllNamesValidity(e0)
  THEN [ok |-> FALSE, exporter |-> e0]
  ELSE LET e1 == IF ~e0.setup_done_ THEN Setup(e0) ELSE e0
           e2 == [e1 EXCEPT !.setup_done_ = TRUE,
                            !.use_obfuscated_names_ = obfuscated,
                            !.use_fixed_mps_format_ = fixed_format]
       IN [ok |-> TRUE,
           exporter |-> IF fixed_format /\ ~CanUseFixedMpsFormat(e2)
                        THEN [e2 EXCEPT !.use_fixed_mps_format_ = FALSE]
                        ELSE e2]

\* Lines 465-483: the call up to and with the header comment.
\* Returns [result, exporter, output], as ExportModelAsLpFormat.
MpsFormatHeader(e0, fixed_format, obfuscated, out0) ==
  LET p == MpsPrepare(e0, fixed_format, obfuscated)
  IN IF ~p.ok THEN [result |-> FALSE, exporter |-> e0, output |-> out0]
     ELSE [result |-> TRUE, exporter |-> p.exporter,
           output |-> AppendComments(p.exporter, "*", EmptyText)]

\* Returns [result, exporter, output], as ExportModelAsLpFormat.
ExportModelAsMpsFormat(e0, fixed_format, obfuscated, out0) ==
  LET p == MpsFormatHeader(e0, fixed_format, obfuscated, out0)
  IN IF ~p.result THEN p
     ELSE
       LET e == [p.exporter EXCEPT !.current_mps_column_ = 0]
           o1 == p.output
           o2 == AddLine(o1, PadRight("NAME", 14) \o proto.name)
           rows == MpsRows(e, 0, AppendMpsLineHeaderWithNewLine(e, "N", "COST", EmptyText))
           o3 == AddSection(o2, "ROWS", rows)
           t == MpsTranspose(0, 0,
                  [ok |-> TRUE, transpose |-> [i \in 1 .. variable_size |-> <<>>]])
           c1 == AppendMpsColumns(e, TRUE, t.transpose, [col |-> 0, out |-> EmptyText])
           c2 == IF c1.out # EmptyText
                 THEN [c1 EXCEPT !.out =
                         AddLine(AddText(AddLine(EmptyText,
                                   kIntMarkerFormat("INTSTART", "'MARKER'", "'INTORG'")), @),
                                 kIntMarkerFormat("INTEND", "'MARKER'", "'INTEND'"))]
                 ELSE c1
           c3 == AppendMpsColumns(e, FALSE, t.transpose, c2)
           o4 == AddSection(o3, "COLUMNS", c3.out)
           rhs == AppendNewLineIfTwoColumns(MpsRhs(e, 0, [col |-> 0, out |-> EmptyText]))
           o5 == AddSection(o4, "RHS", rhs.out)
           ranges == AppendNewLineIfTwoColumns(
                       MpsRanges(e, 0, [col |-> 0, out |-> EmptyText]))
           o6 == AddSection(o5, "RANGES", ranges.out)
           o7 == AddSection(o6, "BOUNDS", MpsBounds(e, 0, EmptyText))
       IN IF ~t.ok THEN [result |-> FALSE, exporter |-> e, output |-> o3]
          ELSE [result |-> TRUE, exporter |-> e, output |-> AddLine(o7, "ENDATA")]

(***************************************************************************)
(* The models and flag settings explored                                    *)
(***************************************************************************)
MaxNamedVars == 2
MaxRowEntries == 2

Var(has_name, name, lb, ub, is_integer, coeff) ==
  [has_name |-> has_name, name |-> name, lower_bound |-> lb, upper_bound |-> ub,
   is_integer |-> is_integer, objective_coefficient |-> coeff]

Ct(has_name, name, lb, ub, var_index, coefficient) ==
  [has_name |-> has_name, name |-> name, lower_bound |-> lb, upper_bound |-> ub,
   var_index |-> var_index, coefficient |-> coefficient]

Model(has_name, name, maximize, offset, variables, constraints) ==
  [has_name |-> has_name, name |-> name, maximize |-> maximize,
   objective_offset |-> offset, variable_size |-> Len(variables),
   variable |-> variables, constraint |-> constraints]

Scenario(model, shows_unused, max_line_length) ==
  [proto |-> model, shows_unused |-> shows_unused, max_line_length |-> max_line_length]

SeqsUpTo(S, n) == UNION {[1 .. k -> S] : k \in 0 .. n}

\* An unset name, valid names, names CheckNameValidity rejects, and names
\* longer than the 8 characters of a fixed MPS field.
NoName == [has_name |-> FALSE, name |-> ""]
Named(name) == [has_name |-> TRUE, name |-> name]
VarNames == {NoName, Named("x"), Named("1x"), Named("longname9")}
CtNames == {NoName, Named("c"), Named("c:1"), Named("constraint")}

\* Models that differ in the names of their variables and constraints.
NameScenarios ==
  {Scenario(Model(FALSE, "", FALSE, Num(0),
                  [i \in DOMAIN vn |->
                     Var(vn[i].has_name, vn[i].name, Num(0), PosInf, FALSE, Num(1))],
                  [i \in DOMAIN cn |->
                     Ct(cn[i].has_name, cn[i].name, NegInf, Num(7), <<0>>, <<Num(1)>>)]),
            FALSE, 10000) :
     vn \in SeqsUpTo(VarNames, MaxNamedVars) \ {<<>>}, cn \in SeqsUpTo(CtNames, 1)}

\* Models of one variable that differ in the rows of their constraints: the
\* entries name variable 0 with coefficient 0 or 1, or the missing variable 1.
RowEntries == {<<0, Num(0)>>, <<0, Num(1)>>, <<1, Num(1)>>}
RowCt(name, row) ==
  Ct(TRUE, name, NegInf, Num(7),
     [k \in DOMAIN row |-> row[k][1]], [k \in DOMAIN row |-> row[k][2]])
RowConstraints ==
  {<<RowCt("c", row)>> : row \in SeqsUpTo(RowEntries, MaxRowEntries)}
  \cup {<<RowCt("c", <<a>>), RowCt("d", <<b>>)>> : a \in RowEntries, b \in RowEntries}
RowVariables ==
  {<<Var(TRUE, "x", Num(0), PosInf, FALSE, coeff)>> : coeff \in {Num(0), Num(1)}}
  \cup {<<Var(TRUE, "x", Num(0), ub, TRUE, coeff)>> :
          ub \in {Num(1), PosInf}, coeff \in {Num(0), Num(1)}}
RowScenarios ==
  {Scenario(Model(FALSE, "", FALSE, Num(0), v, c), shows_unused, 10000) :
     v \in RowVariables, c \in RowConstraints, shows_unused \in BOOLEAN}

\* Models that differ in the bounds and the integrality of their variable.
VarBounds ==
  {<<Num(0), PosInf>>, <<NegInf, PosInf>>, <<NegInf, Num(5)>>, <<Num(0), Num(1)>>,
   <<Num(1), Num(5)>>, <<Num(5), Num(5)>>, <<Num(0), Num(0)>>, <<Fin(1), Fin(5)>>,
   <<Fin(5), Fin(5)>>, <<Num(5), PosInf>>}
VarBoundScenarios ==
  {Scenario(Model(FALSE, "", FALSE, Num(0),
                  <<Var(TRUE, "x", b[1], b[2], is_integer, Num(1))>>,
                  <<Ct(TRUE, "c", NegInf, Num(7), <<0>>, <<Num(1)>>)>>),
            FALSE, 10000) :
     b \in VarBounds, is_integer \in BOOLEAN}

\* Models that differ in the bounds of their constraint, written with line
\* lengths that do and do not make the LP constraint wrap.
CtBoundValues == {NegInf, Num(2), Num(7), PosInf}
CtBoundScenarios ==
  {Scenario(Model(FALSE, "", FALSE, Num(0),
                  <<Var(TRUE, "x", Num(0), PosInf, FALSE, Num(1)),
                    Var(TRUE, "y", Num(0), PosInf, FALSE, Num(0))>>,
                  <<Ct(TRUE, "c", lb, ub, <<0, 1>>, <<Num(1), Num(2)>>)>>),
            FALSE, max_line_length) :
     lb \in CtBoundValues, ub \in CtBoundValues, max_line_length \in {10000, 20, 12}}

\* Models that differ in what the header and the objective show.
HeaderScenarios ==
  {Scenario(Model(n.has_name, n.name, maximize, offset,
                  <<Var(FALSE, "", Num(0), PosInf, FALSE, Num(1))>>,
                  <<Ct(FALSE, "", Num(2), Num(7), <<0>>, <<Num(1)>>)>>),
            FALSE, 10000) :
     n \in {NoName, Named("lp1")}, maximize \in BOOLEAN, offset \in {Num(0), Num(3)}}

Scenarios ==
  NameScenarios \cup RowScenarios \cup VarBoundScenarios \cup CtBoundScenarios
  \cup HeaderScenarios

(***************************************************************************)
(* The exporter object and the calls on it                                  *)
(***************************************************************************)
\* The constructor, lines 42-53.
NewExporter ==
  [num_integer_variables_ |-> 0, num_binary_variables_ |-> 0,
   num_continuous_variables_ |-> 0, num_digits_for_variables_ |-> 0,
   num_digits_for_constraints_ |-> 0, current_mps_column_ |-> 0,
   use_fixed_mps_format_ |-> FALSE, use_obfuscated_names_ |-> FALSE,
   setup_done_ |-> FALSE]

\* A call: the function and its flags (fixed_format is FALSE for the LP export)
Signature(op, fixed_format, obfuscated) ==
  [op |-> op, fixed_format |-> fixed_format, obfuscated |-> obfuscated]

NoCall == [sig |-> Signature("none", FALSE, FALSE), result |-> FALSE, untouched |-> TRUE]

\* ref.state is "off" (no call is kept), "empty" (none is kept yet) or "set".
Ref(state, sig, result, text) ==
  [state |-> state, sig |-> sig, result |-> result, output |-> text]
NoRef(state) == Ref(state, Signature("none", FALSE, FALSE), FALSE, EmptyText)

InitExporter(sc, ref_state) ==
  /\ proto = sc.proto
  /\ FLAGS_lp_shows_unused_variables = sc.shows_unused
  /\ FLAGS_lp_max_line_length = sc.max_line_length
  /\ exporter = NewExporter
  /\ output = EmptyText
  /\ call = NoCall
  /\ ref = NoRef(ref_state)
  /\ breaker = LineBreaker(0)
  /\ held = <<>>

Init == \E sc \in Scenarios : InitExporter(sc, "off")

\* What a call leaves behind: r is [result, exporter, output].  While no call
\* is kept in ref, this one may be.
Returned(sig, r) ==
  /\ exporter' = r.exporter
  /\ output' = r.output
  /\ call' = [sig |-> sig, result |-> r.result, untouched |-> (r.output = output)]
  /\ \/ ref' = ref
     \/ ref.state = "empty" /\ ref' = Ref("set", sig, r.result, r.output)
  /\ UNCHANGED <<proto, FLAGS_lp_shows_unused_variables, FLAGS_lp_max_line_length,
                 breaker, held>>

\* exporter.ExportModelAsLpFormat(obfuscated, &output)
CallExportModelAsLpFormat ==
  \E obfuscated \in BOOLEAN :
    Returned(Signature("lp", FALSE, obfuscated),
             ExportModelAsLpFormat(exporter, obfuscated, output))

\* exporter.ExportModelAsMpsFormat(fixed_format, obfuscated, &output)
CallExportModelAsMpsFormat ==
  \E fixed_format \in BOOLEAN, obfuscated \in BOOLEAN :
    Returned(Signature("mps", fixed_format, obfuscated),
             ExportModelAsMpsFormat(exporter, fixed_format, obfuscated, output))

Next == CallExportModelAsLpFormat \/ CallExportModelAsMpsFormat

Spec == Init /\ [][Next]_vars

\* The same calls, with one of them kept for comparison with the later ones.
RepeatScenarios ==
  HeaderScenarios \cup {sc \in NameScenarios : Len(sc.proto.variable) = 1}
InitRepeat == \E sc \in RepeatScenarios : InitExporter(sc, "empty")

SpecRepeat == InitRepeat /\ [][Next]_vars

(***************************************************************************)
(* The choice of the MPS layout, on models of up to 10^7 variables          *)
(*                                                                          *)
(* The text after the header comment has a line or more per variable and    *)
(* is not built for these models: the call is followed to line 483.         *)
(***************************************************************************)
LayoutNames == {NoName, Named("x"), Named("longname9")}
LayoutScenarios ==
  {Scenario([Model(FALSE, "", FALSE, Num(0),
                   [i \in DOMAIN vn |->
                      Var(vn[i].has_name, vn[i].name, Num(0), PosInf, FALSE, Num(1))],
                   [i \in DOMAIN cn |->
                      Ct(cn[i].has_name, cn[i].name, NegInf, Num(7), <<0>>, <<Num(1)>>)])
               EXCEPT !.variable_size = IF size < Len(vn) THEN Len(vn) ELSE size],
            FALSE, 10000) :
     vn \in SeqsUpTo(LayoutNames, 1), cn \in SeqsUpTo(LayoutNames, 1),
     size \in {1, 9999999, 10000000}}

InitLayout == \E sc \in LayoutScenarios : InitExporter(sc, "off")

\* exporter.ExportModelAsMpsFormat(fixed_format, obfuscated, &output), to line 483
CallMpsFormatHeader ==
  \E fixed_format \in BOOLEAN, obfuscated \in BOOLEAN :
    Returned(Signature("mps", fixed_format, obfuscated),
             MpsFormatHeader(exporter, fixed_format, obfuscated, output))

NextLayout == CallMpsFormatHeader

SpecLayout == InitLayout /\ [][NextLayout]_vars

(***************************************************************************)
(* A LineBreaker on its own                                                 *)
(*                                                                          *)
(* held[k] records what the calls put on line k of the output: the sizes    *)
(* given to Consume and the strings given to Append.                        *)
(***************************************************************************)
MaxLineSize == 4
MaxBreakerCalls == 3

Tokens == {"", "a", "bc", "defgh"}
ConsumeSizes == {1, 3}

NoneHeld == [consumed |-> <<>>, tokens |-> <<>>]

RECURSIVE NumHeld(_)
NumHeld(h) ==
  IF h = <<>> THEN 0 ELSE Len(Head(h).consumed) + Len(Head(h).tokens) + NumHeld(Tail(h))

InitBreaker ==
  /\ proto = Model(FALSE, "", FALSE, Num(0), <<>>, <<>>)
  /\ FLAGS_lp_shows_unused_variables = FALSE
  /\ FLAGS_lp_max_line_length = 10000
  /\ exporter = NewExporter
  /\ output = EmptyText
  /\ call = NoCall
  /\ ref = NoRef("off")
  /\ \E max_line_size \in 1 .. MaxLineSize : breaker = LineBreaker(max_line_size)
  /\ held = <<NoneHeld>>

\* breaker.Append(s)
CallAppend ==
  \E s \in Tokens :
    /\ NumHeld(held) < MaxBreakerCalls
    /\ breaker' = LineBreakerAppend(breaker, <<s>>)
    /\ held' = IF Len(breaker'.output_) > Len(breaker.output_)
               THEN Append(held, [NoneHeld EXCEPT !.tokens = <<s>>])
               ELSE [held EXCEPT ![Len(held)].tokens = Append(@, s)]
    /\ UNCHANGED <<proto, FLAGS_lp_shows_unused_variables, FLAGS_lp_max_line_length,
                   exporter, output, call, ref>>

\* breaker.Consume(size)
CallConsume ==
  \E size \in ConsumeSizes :
    /\ NumHeld(held) < MaxBreakerCalls
    /\ breaker' = Consume(breaker, size)
    /\ held' = [held EXCEPT ![Len(held)].consumed = Append(@, size)]
    /\ UNCHANGED <<proto, FLAGS_lp_shows_unused_variables, FLAGS_lp_max_line_length,
                   exporter, output, call, ref>>

NextBreaker == CallAppend \/ CallConsume

SpecBreaker == InitBreaker /\ [][NextBreaker]_vars

(***************************************************************************)
(* CheckNameValidity called on its own, between exports of a model whose    *)
(* one variable bears the name                                              *)
(***************************************************************************)
\* Every character the function tests for, and some it does not.
NameChars == kForbiddenChars \cup kForbiddenFirstChars \cup {"a", "Z", "_"}

a16 == "aaaaaaaaaaaaaaaa"
a64 == a16 \o a16 \o a16 \o a16
a256 == a64 \o a64 \o a64 \o a64

\* The empty name, each character alone, first and last, and names of
\* kMaxNameLength - 1, kMaxNameLength and kMaxNameLength + 1 characters.
CheckedNames ==
  {""} \cup NameChars \cup {c \o "a" : c \in NameChars} \cup {"a" \o c : c \in NameChars}
       \cup {SubSeq(a256, 1, n) : n \in kMaxNameLength - 1 .. kMaxNameLength + 1}

NameCheckScenarios ==
  {Scenario(Model(FALSE, "", FALSE, Num(0),
                  <<Var(TRUE, name, Num(0), PosInf, FALSE, Num(1))>>, <<>>),
            FALSE, 10000) : name \in CheckedNames}

InitNames == \E sc \in NameCheckScenarios : InitExporter(sc, "off")

\* MPModelProtoExporter::CheckNameValidity(proto.variable(0).name())
CallCheckNameValidity ==
  /\ call' = [sig |-> Signature("check", FALSE, FALSE),
              result |-> CheckNameValidity(Variable(0).name),
              untouched |-> TRUE]
  /\ UNCHANGED <<proto, FLAGS_lp_shows_unused_variables, FLAGS_lp_max_line_length,
                 exporter, output, ref, breaker, held>>

NextNames == CallCheckNameValidity \/ CallExportModelAsLpFormat \/ CallExportModelAsMpsFormat

SpecNames == InitNames /\ [][NextNames]_vars

(***************************************************************************)
(* MPS exports of models with several variables and constraints, for the    *)
(* two-column layout of COLUMNS, RHS and RANGES                             *)
(***************************************************************************)
MaxColumnVars == 3
MaxColumnCts == 3

\* Rows over the first, the second and the last variable.
ColumnRows == {<<0>>, <<0, 1>>, <<MaxColumnVars - 1, 0>>}
\* Bounds of the constraints: all two-sided, all one-sided, or the first
\* without bounds and the others two-sided.
ColumnBounds ==
  {[j \in 1 .. MaxColumnCts |-> <<Num(2), Num(7)>>],
   [j \in 1 .. MaxColumnCts |-> <<NegInf, Num(7)>>],
   [j \in 1 .. MaxColumnCts |-> IF j = 1 THEN <<NegInf, PosInf>> ELSE <<Num(2), Num(7)>>]}
\* The variables that are integer, and those in the objective.
ColumnKinds ==
  {<<{}, {}>>, <<{}, 1 .. MaxColumnVars>>, <<{2}, 1 .. MaxColumnVars>>,
   <<1 .. MaxColumnVars, {2}>>}

ColumnScenarios ==
  {Scenario(Model(FALSE, "", FALSE, Num(0),
                  [i \in 1 .. MaxColumnVars |->
                     Var(TRUE, "x" \o ToString(i), Num(0), PosInf, i \in kinds[1],
                         IF i \in kinds[2] THEN Num(1) ELSE Num(0))],
                  [j \in 1 .. MaxColumnCts |->
                     Ct(TRUE, "c" \o ToString(j), bounds[j][1], bounds[j][2], rows[j],
                        [k \in DOMAIN rows[j] |-> Num(1)])]),
            FALSE, 10000) :
     kinds \in ColumnKinds, bounds \in ColumnBounds,
     rows \in [1 .. MaxColumnCts -> ColumnRows]}

InitColumns == \E sc \in ColumnScenarios : InitExporter(sc, "off")

NextColumns == CallExportModelAsMpsFormat

SpecColumns == InitColumns /\ [][NextColumns]_vars

(***************************************************************************)
(* Reading the exported text back                                           *)
(***************************************************************************)
\* The fields of a line: its maximal runs of non-space characters.
Fields(line) ==
  LET n == Len(line)
      starts == {i \in 1 .. n : CharAt(line, i) # " " /\ (i = 1 \/ CharAt(line, i - 1) = " ")}
      EndOf(b) == CHOOSE e \in b .. n :
                    /\ e = n \/ CharAt(line, e + 1) = " "
                    /\ \A m \in b .. e : CharAt(line, m) # " "
      Start(k) == CHOOSE b \in starts : Cardinality({c \in starts : c < b}) = k - 1
  IN [k \in 1 .. Cardinality(starts) |-> SubSeq(line, Start(k), EndOf(Start(k)))]

\* The lines of text t after the line `keyword` and before the next line that
\* is one of `keywords`; none when there is no line `keyword`.
SectionLines(t, keyword, keywords) ==
  IF \A i \in 1 .. Len(t) : t[i] # keyword THEN <<>>
  ELSE LET start == CHOOSE i \in 1 .. Len(t) :
                      t[i] = keyword /\ \A j \in 1 .. i - 1 : t[j] # keyword
           stop == CHOOSE i \in start + 1 .. Len(t) + 1 :
                     /\ i = Len(t) + 1 \/ t[i] \in keywords
                     /\ \A j \in start + 1 .. i - 1 : t[j] \notin keywords
       IN SubSeq(t, start + 1, stop - 1)

LpKeywords == {"Subject to", "Bounds", "Binaries", "Generals", "End"}
MpsKeywords == {"ROWS", "COLUMNS", "RHS", "RANGES", "BOUNDS", "ENDATA"}
LpSection(keyword) == SectionLines(output, keyword, LpKeywords)
MpsSection(keyword) == SectionLines(output, keyword, MpsKeywords)

\* The last call was an export of the given kind that returned true.
Exported(op) == call.sig.op = op /\ call.result
Called == call.sig.op # "none"

VariableIndices == 0 .. variable_size - 1
ConstraintIndices == 0 .. constraint_size - 1

\* Some variable or constraint has a declared name CheckNameValidity rejects.
HasInvalidDeclaredName ==
  \/ \E i \in VariableIndices : Variable(i).has_name /\ ~CheckNameValidity(Variable(i).name)
  \/ \E j \in ConstraintIndices :
       Constraint(j).has_name /\ ~CheckNameValidity(Constraint(j).name)

\* Every entry of every constraint row names a variable of the model.
AllIndicesInRange ==
  \A j \in ConstraintIndices : \A k \in DOMAIN Constraint(j).var_index :
    Constraint(j).var_index[k] \in VariableIndices

\* The text ends with the line `sentinel`.
EndsWithLine(t, sentinel) ==
  Len(t) >= 2 /\ t[Len(t)] = "" /\ t[Len(t) - 1] = sentinel

(***************************************************************************)
(* C1: after any earlier calls, an export with obfuscated = false of a      *)
(* model with a declared name that CheckNameValidity rejects returns false  *)
(* and leaves the caller's string as it was.                                *)
(***************************************************************************)
C1_InvalidNameAborts ==
  (Called /\ ~call.sig.obfuscated /\ HasInvalidDeclaredName)
    => (~call.result /\ call.untouched)

(***************************************************************************)
(* C2: when a constraint row names a variable index outside                 *)
(* [0, variable_count), both exports return false and the caller's string   *)
(* is empty.                                                                *)
(***************************************************************************)
C2_OutOfRangeLeavesNoText ==
  (Called /\ ~AllIndicesInRange) => (~call.result /\ output = EmptyText)

(***************************************************************************)
(* C3: two calls of the same export with the same flags on one exporter     *)
(* return the same result and, when they succeed, the same text, whatever   *)
(* calls were made before or between them.                                  *)
(***************************************************************************)
C3_SameCallSameText ==
  (ref.state = "set" /\ call.sig = ref.sig)
    => (call.result = ref.result /\ (call.result => output = ref.output))

HasNonzeroCoefficient(i) ==
  \/ DNe(Variable(i).objective_coefficient, Num(0))
  \/ \E j \in ConstraintIndices : \E k \in DOMAIN Constraint(j).var_index :
       Constraint(j).var_index[k] = i /\ DNe(Constraint(j).coefficient[k], Num(0))

\* Some line of the section has the name among its fields.
Listed(section, name) ==
  \E n \in DOMAIN section : \E f \in DOMAIN Fields(section[n]) :
    Fields(section[n])[f] = name

C5_UsedVariablesAreShown ==
  Exported("lp") =>
    \A i \in VariableIndices :
      LET name == GetVariableName(exporter, i)
      IN /\ HasNonzeroCoefficient(i) =>
              /\ Listed(LpSection("Bounds"), name)
              /\ IsBoolean(Variable(i)) => Listed(LpSection("Binaries"), name)
              /\ (Variable(i).is_integer /\ ~IsBoolean(Variable(i)))
                    => Listed(LpSection("Generals"), name)
         /\ (~HasNonzeroCoefficient(i) /\ ~FLAGS_lp_shows_unused_variables) =>
              /\ ~Listed(LpSection("Bounds"), name)
              /\ ~Listed(LpSection("Binaries"), name)
              /\ ~Listed(LpSection("Generals"), name)

(***************************************************************************)
(* C6: for every variable whose bounds are equal and finite, the BOUNDS     *)
(* section of the MPS export has exactly one row for the variable, of type  *)
(* FX and with that value.                                                  *)
(***************************************************************************)
\* The fields of the rows of the BOUNDS section that name the variable: a row
\* reads  type BOUND name [value].
BoundRows(name) ==
  LET rows == MpsSection("BOUNDS")
      named == SelectSeq(rows, LAMBDA l : Len(Fields(l)) >= 3 /\ Fields(l)[3] = name)
  IN [n \in DOMAIN named |-> Fields(named[n])]

OneFXRow(i) ==
  BoundRows(GetVariableName(exporter, i))
    = <<<<"FX", "BOUND", GetVariableName(exporter, i), FormatG(Variable(i).lower_bound)>>>>

HasFixedValue(i) ==
  IsFinite(Variable(i).lower_bound) /\ DEq(Variable(i).lower_bound, Variable(i).upper_bound)

\* The claim as stated: for integer variables as well.
C6_EqualBoundsGiveOneFX ==
  Exported("mps") => \A i \in VariableIndices : HasFixedValue(i) => OneFXRow(i)

\* C6, amended: for every variable that is not integer and whose bounds are
\* equal and finite, the BOUNDS section has exactly one row, FX with the value.
C6_ContinuousEqualBoundsGiveOneFX ==
  Exported("mps") =>
    \A i \in VariableIndices :
      (HasFixedValue(i) /\ ~Variable(i).is_integer) => OneFXRow(i)

C6_Witness ==
  /\ Exported("mps")
  /\ \E i \in VariableIndices :
       /\ ~Variable(i).is_integer
       /\ Variable(i).lower_bound = Num(5) /\ Variable(i).upper_bound = Num(5)
       /\ BoundRows(GetVariableName(exporter, i))
            = <<<<"FX", "BOUND", GetVariableName(exporter, i), "5">>>>

(***************************************************************************)
(* C7: in the MPS export a constraint's ROWS type is E when lb = ub, L when *)
(* only ub is finite, G when lb is finite and differs from ub; the RHS      *)
(* section has exactly one entry for it, with lb for E and G and ub for L;  *)
(* the RANGES section has an entry for it exactly when both bounds are      *)
(* finite and unequal, with value |ub - lb|.                                *)
(***************************************************************************)
\* The (name, value) entries of the lines of an RHS or RANGES section: a line
\* reads  head name value [name value].
RECURSIVE SectionEntries(_)
SectionEntries(section) ==
  IF section = <<>> THEN <<>>
  ELSE LET f == Fields(Head(section))
       IN [k \in 1 .. ((Len(f) - 1) \div 2) |-> <<f[2 * k], f[2 * k + 1]>>]
          \o SectionEntries(Tail(section))

\* The values of the entries of a section for a name.
ValuesFor(section, name) ==
  LET es == SelectSeq(SectionEntries(section), LAMBDA e : e[1] = name)
  IN [k \in DOMAIN es |-> es[k][2]]

\* The types of the rows of the ROWS section that name the constraint.
RowTypes(name) ==
  LET rows == SelectSeq(MpsSection("ROWS"),
                        LAMBDA l : Len(Fields(l)) = 2 /\ Fields(l)[2] = name)
  IN [n \in DOMAIN rows |-> Fields(rows[n])[1]]

\* What the claim says of constraint j.
RowsRhsRangesAsClaimed(j) ==
  LET lb == Constraint(j).lower_bound
      ub == Constraint(j).upper_bound
      name == GetConstraintName(exporter, j)
      rhs == ValuesFor(MpsSection("RHS"), name)
      ranges == ValuesFor(MpsSection("RANGES"), name)
      isE == DEq(lb, ub)
      isL == ~isE /\ ~IsFinite(lb) /\ IsFinite(ub)
      isG == IsFinite(lb) /\ DNe(lb, ub)
  IN /\ isE => RowTypes(name) = <<"E">>
     /\ isL => RowTypes(name) = <<"L">>
     /\ isG => RowTypes(name) = <<"G">>
     /\ Len(rhs) = 1
     /\ (isE \/ isG) => rhs = <<FormatG(lb)>>
     /\ isL => rhs = <<FormatG(ub)>>
     /\ IF IsFinite(lb) /\ IsFinite(ub) /\ DNe(lb, ub)
        THEN ranges = <<FormatG(fabs(DSub(ub, lb)))>>
        ELSE ranges = <<>>

\* The claim as stated: for every constraint.
C7_RowsRhsRanges ==
  Exported("mps") => \A j \in ConstraintIndices : RowsRhsRangesAsClaimed(j)

\* C7 restricted: the claim holds for every constraint with at least one
\* finite bound and lb # +inf; a constraint with lb = -inf and ub = +inf has a
\* row of type L and no entry in RHS or RANGES.
C7_RowsRhsRangesOfBoundedConstraints ==
  Exported("mps") =>
    \A j \in ConstraintIndices :
      LET lb == Constraint(j).lower_bound
          ub == Constraint(j).upper_bound
          name == GetConstraintName(exporter, j)
      IN /\ ((IsFinite(lb) \/ IsFinite(ub)) /\ DNe(lb, PosInf)) => RowsRhsRangesAsClaimed(j)
         /\ (lb = NegInf /\ ub = PosInf) =>
              /\ RowTypes(name) = <<"L">>
              /\ ValuesFor(MpsSection("RHS"), name) = <<>>
              /\ ValuesFor(MpsSection("RANGES"), name) = <<>>

C7_Witness ==
  /\ Exported("mps")
  /\ \E j \in ConstraintIndices :
       /\ Constraint(j).lower_bound = Num(2) /\ Constraint(j).upper_bound = Num(7)
       /\ RowTypes(GetConstraintName(exporter, j)) = <<"G">>
       /\ ValuesFor(MpsSection("RHS"), GetConstraintName(exporter, j)) = <<"2">>
       /\ ValuesFor(MpsSection("RANGES"), GetConstraintName(exporter, j)) = <<"5">>

(***************************************************************************)
(* C8: in the LP export a constraint with lb = ub is rendered once, as      *)
(* "name: terms = ub"; with lb = -inf and ub finite once, under its own     *)
(* name, with "<= ub"; with lb finite and ub = +inf once, under its own     *)
(* name, with ">= lb"; with both bounds finite and unequal twice, as        *)
(* name_rhs with "<= ub" and then name_lhs with ">= lb".  All renderings of *)
(* one constraint carry the same wrapped term list.                         *)
(***************************************************************************)
\* A rendering starts at a line whose first field is a label "name:".
IsLabel(field) == Len(field) > 1 /\ CharAt(field, Len(field)) = ":"

\* The renderings of a "Subject to" section, in order: the label and, line by
\* line, the fields that follow it up to the next label.
RECURSIVE LpEntries(_, _)
LpEntries(section, acc) ==
  IF section = <<>> THEN acc
  ELSE LET f == Fields(Head(section))
           n == Len(acc)
       IN IF f # <<>> /\ IsLabel(f[1])
          THEN LpEntries(Tail(section),
                 Append(acc, [label |-> SubSeq(f[1], 1, Len(f[1]) - 1),
                              lines |-> <<Tail(f)>>]))
          ELSE IF n = 0 THEN LpEntries(Tail(section), acc)
          ELSE LpEntries(Tail(section),
                 [acc EXCEPT ![n].lines = Append(@, f)])

\* A rendering ends with the relation and its value ...
EntryRelation(entry) ==
  LET last == entry.lines[Len(entry.lines)]
  IN SubSeq(last, Len(last) - 1, Len(last))

\* ... and before them come the terms, on the lines they were wrapped to.
EntryTerms(entry) ==
  LET m == Len(entry.lines)
      last == entry.lines[m]
      lines == [entry.lines EXCEPT ![m] = SubSeq(last, 1, Len(last) - 2)]
  IN SelectSeq(lines, LAMBDA l : l # <<>>)

\* The renderings of constraint j, as label, relation and value.
Renderings(j) ==
  LET name == GetConstraintName(exporter, j)
      es == SelectSeq(LpEntries(LpSection("Subject to"), <<>>),
                      LAMBDA en : en.label \in {name, name \o "_rhs", name \o "_lhs"})
  IN [k \in DOMAIN es |-> <<es[k].label>> \o EntryRelation(es[k])]

\* The term lists of the renderings of constraint j.
RenderedTerms(j) ==
  LET name == GetConstraintName(exporter, j)
      es == SelectSeq(LpEntries(LpSection("Subject to"), <<>>),
                      LAMBDA en : en.label \in {name, name \o "_rhs", name \o "_lhs"})
  IN {EntryTerms(es[k]) : k \in DOMAIN es}

C8_ConstraintRenderings ==
  Exported("lp") =>
    \A j \in ConstraintIndices :
      LET lb == Constraint(j).lower_bound
          ub == Constraint(j).upper_bound
          name == GetConstraintName(exporter, j)
      IN /\ DEq(lb, ub) => Renderings(j) = <<<<name, "=", FormatG(ub)>>>>
         /\ (lb = NegInf /\ IsFinite(ub)) => Renderings(j) = <<<<name, "<=", FormatG(ub)>>>>
         /\ (IsFinite(lb) /\ ub = PosInf) => Renderings(j) = <<<<name, ">=", FormatG(lb)>>>>
         /\ (IsFinite(lb) /\ IsFinite(ub) /\ DNe(lb, ub)) =>
              Renderings(j) = << <<name \o "_rhs", "<=", FormatG(ub)>>,
                                 <<name \o "_lhs", ">=", FormatG(lb)>> >>
         /\ Cardinality(RenderedTerms(j)) <= 1

\* A two-sided constraint whose terms were wrapped over more than one line.
C8_Witness ==
  /\ Exported("lp")
  /\ \E j \in ConstraintIndices :
       /\ Constraint(j).lower_bound = Num(2) /\ Constraint(j).upper_bound = Num(7)
       /\ Len(Renderings(j)) = 2
       /\ \E terms \in RenderedTerms(j) : Len(terms) > 1

(***************************************************************************)
(* C9: for any max_line_size >= 1 and any sequence of Append and Consume    *)
(* calls, every appended token is in the output unsplit, and every line of  *)
(* the output, with the space written after a break and the characters      *)
(* reserved by Consume counted, is at most max_line_size long, unless the   *)
(* line holds a single token that is longer than max_line_size by itself.   *)
(***************************************************************************)
RECURSIVE Concat(_)
Concat(tokens) == IF tokens = <<>> THEN "" ELSE Head(tokens) \o Concat(Tail(tokens))

RECURSIVE Sum(_)
Sum(sizes) == IF sizes = <<>> THEN 0 ELSE Head(sizes) + Sum(Tail(sizes))

C9_LinesFitAndTokensWhole ==
  /\ Len(breaker.output_) = Len(held)
  /\ \A k \in DOMAIN held :
       LET line == breaker.output_[k]
           tokens == SelectSeq(held[k].tokens, LAMBDA t : t # "")
       IN /\ line = (IF k > 1 THEN " " ELSE "") \o Concat(held[k].tokens)
          /\ \/ Sum(held[k].consumed) + Len(line) <= breaker.max_line_size_
             \/ Len(tokens) = 1 /\ Len(tokens[1]) > breaker.max_line_size_

(***************************************************************************)
(* C10: when ExportModelAsMpsFormat is called with fixed_format = true, the *)
(* fixed layout is used if and only if every name the export renders under  *)
(* the requested obfuscation is at most 8 characters long; otherwise the    *)
(* export succeeds in free layout; the header comment reports the layout    *)
(* used.                                                                    *)
(***************************************************************************)
RenderedNamesFit ==
  /\ \A i \in VariableNameIndices : Len(GetVariableName(exporter, i)) <= kMpsFieldSize
  /\ \A j \in ConstraintIndices : Len(GetConstraintName(exporter, j)) <= kMpsFieldSize

FormatLine(layout) == "*   " \o PadRight("Format", 16) \o " : " \o layout

C10_FixedIffNamesFit ==
  (Exported("mps") /\ call.sig.fixed_format) =>
    /\ exporter.use_fixed_mps_format_ <=> RenderedNamesFit
    /\ output[3] = FormatLine(IF exporter.use_fixed_mps_format_ THEN "Fixed" ELSE "Free")

(***************************************************************************)
(* C11: CheckNameValidity(name) returns false if and only if the name is    *)
(* empty, or longer than 255 characters, or contains one of the characters  *)
(* space + - * / < > = : backslash, or starts with one of $ . 0-9; the      *)
(* result depends on the name alone, whatever state the exporter is in.     *)
(***************************************************************************)
CheckedName == Variable(0).name

NameIsRejected(name) ==
  \/ name = ""
  \/ Len(name) > 255
  \/ \E i \in 1 .. Len(name) :
       SubSeq(name, i, i) \in {" ", "+", "-", "*", "/", "<", ">", "=", ":", "\\"}
  \/ /\ name # ""
     /\ SubSeq(name, 1, 1) \in {"$", ".", "0", "1", "2", "3", "4", "5", "6", "7", "8", "9"}

C11_NameValidity ==
  call.sig.op = "check" => (call.result <=> ~NameIsRejected(CheckedName))

\* A name of 255 characters is accepted, on an exporter that has exported with
\* obfuscated names before.
C11_Witness ==
  /\ call.sig.op = "check" /\ call.result
  /\ Len(CheckedName) = 255
  /\ exporter.setup_done_ /\ exporter.use_obfuscated_names_

(***************************************************************************)
(* C12: in the Bounds section of the LP export, a shown integer variable    *)
(* whose bounds are both finite and integral has the line                   *)
(* "lb <= var <= ub", the bounds written without decimal point; the line of *)
(* every other shown variable has "lb <=" only if lb is finite and          *)
(* "<= ub" only if ub is finite: an infinite bound is never written.        *)
(***************************************************************************)
\* The fields of the lines of the Bounds section that name the variable.
LpBoundLines(name) ==
  LET named == SelectSeq(LpSection("Bounds"),
                         LAMBDA l : \E k \in DOMAIN Fields(l) : Fields(l)[k] = name)
  IN {Fields(named[n]) : n \in DOMAIN named}

IsIntegral(a) == IsFinite(a) /\ a.h % 2 = 0

C12_BoundsLines ==
  Exported("lp") =>
    \A i \in VariableIndices :
      LET lb == Variable(i).lower_bound
          ub == Variable(i).upper_bound
          name == GetVariableName(exporter, i)
      IN \A f \in LpBoundLines(name) :
           IF Variable(i).is_integer /\ IsIntegral(lb) /\ IsIntegral(ub)
           THEN f = <<ToString(lb.h \div 2), "<=", name, "<=", ToString(ub.h \div 2)>>
           ELSE \E has_lb \in BOOLEAN, has_ub \in BOOLEAN :
                  /\ has_lb => IsFinite(lb)
                  /\ has_ub => IsFinite(ub)
                  /\ f = (IF has_lb THEN <<FormatG(lb), "<=">> ELSE <<>>) \o <<name>>
                           \o (IF has_ub THEN <<"<=", FormatG(ub)>> ELSE <<>>)

(***************************************************************************)
(* C13: in the COLUMNS, RHS and RANGES sections of the MPS export every     *)
(* data line holds one or two (name, value) entries, a line break follows   *)
(* every second entry, all entries of a COLUMNS line are the variable's     *)
(* whose name heads the line, a new variable starts a new line also after   *)
(* a variable with an odd number of entries, and every section ends with a  *)
(* newline.                                                                 *)
(***************************************************************************)
\* The data lines of the COLUMNS section: all but the integer markers.
ColumnLines ==
  SelectSeq(MpsSection("COLUMNS"),
            LAMBDA l : ~(Len(Fields(l)) = 3 /\ Fields(l)[2] = "'MARKER'"))

\* The head and the names of the entries of a data line; a value follows each
\* name.  A line of another shape is given back whole, after "?".
HeadAndNames(line) ==
  LET f == Fields(line)
  IN IF Len(f) = 3 THEN <<f[1], f[2]>>
     ELSE IF Len(f) = 5 THEN <<f[1], f[2], f[4]>>
     ELSE <<"?">> \o f

\* Entries two by two on lines under a head.
RECURSIVE TwoByTwo(_, _)
TwoByTwo(head, names) ==
  IF names = <<>> THEN <<>>
  ELSE IF Len(names) = 1 THEN << <<head, names[1]>> >>
  ELSE << <<head, names[1], names[2]>> >> \o TwoByTwo(head, SubSeq(names, 3, Len(names)))

\* The rows in which variable i has an entry with a nonzero coefficient, from
\* constraint j on, an entry of the objective first.
RECURSIVE RowsOf(_, _)
RowsOf(i, j) ==
  IF j >= constraint_size THEN <<>>
  ELSE LET ct == Constraint(j)
           ks == SelectSeq([k \in DOMAIN ct.var_index |-> k],
                           LAMBDA k : ct.var_index[k] = i /\ DNe(ct.coefficient[k], Num(0)))
       IN [n \in DOMAIN ks |-> GetConstraintName(exporter, j)] \o RowsOf(i, j + 1)

EntriesOf(i) ==
  (IF DNe(Variable(i).objective_coefficient, Num(0)) THEN <<"COST">> ELSE <<>>)
    \o RowsOf(i, 0)

\* The lines of the variables of one integrality, from variable i on.
RECURSIVE LinesOf(_, _)
LinesOf(integrality, i) ==
  IF i >= variable_size THEN <<>>
  ELSE (IF Variable(i).is_integer = integrality
        THEN TwoByTwo(GetVariableName(exporter, i), EntriesOf(i))
        ELSE <<>>) \o LinesOf(integrality, i + 1)

\* One or two entries on every line under the head, two on all but the last.
TwoColumnLayout(section, head) ==
  \A n \in DOMAIN section :
    LET f == Fields(section[n])
    IN /\ f[1] = head
       /\ Len(f) \in {3, 5}
       /\ n < Len(section) => Len(f) = 5

C13_TwoColumnLayout ==
  Exported("mps") =>
    /\ [n \in DOMAIN ColumnLines |-> HeadAndNames(ColumnLines[n])]
         = LinesOf(TRUE, 0) \o LinesOf(FALSE, 0)
    /\ TwoColumnLayout(MpsSection("RHS"), "RHS")
    /\ TwoColumnLayout(MpsSection("RANGES"), "RANGE")
    /\ EndsWithLine(output, "ENDATA")

\* A variable with an odd number of entries is followed by another variable,
\* and the RHS and RANGES sections have a full line and a line of one entry.
C13_Witness ==
  /\ Exported("mps")
  /\ \E n \in 1 .. Len(ColumnLines) - 1 :
       /\ Len(HeadAndNames(ColumnLines[n])) = 2
       /\ HeadAndNames(ColumnLines[n])[1] # HeadAndNames(ColumnLines[n + 1])[1]
  /\ \E i \in VariableIndices : Len(EntriesOf(i)) > 2
  /\ Len(MpsSection("RHS")) = 2
  /\ Len(MpsSection("RANGES")) = 2

====
